---- MODULE Spec2Model ----
(***************************************************************************)
(* Model of api/app.py: the ANPR congestion dashboard.  One request runs   *)
(* process_data: catalog lookup (get_all_files_for_period), sequential     *)
(* download and validation of every listed file, concatenation and         *)
(* de-duplication, normalization, journey reconciliation and aggregation   *)
(* per configured route, then the dashboard endpoint renders the result.   *)
(*                                                                         *)
(* Text is modelled as a sequence of one-character strings.  A spreadsheet *)
(* cell is a pair <<tag, text>> with tag "str", "num" (a numeric cell) or  *)
(* "nan" (a blank cell / pandas NaN).  A passing time is <<"ts", seconds>>, *)
(* and NaT after coercion of anything else.                                *)
(***************************************************************************)
EXTENDS Integers, Sequences, FiniteSets, TLC

VARIABLES
    pc,                \* position of the request in dashboard / process_data
    credentials,       \* GOOGLE_CREDENTIALS_JSON: "unset", "malformed" or "ok"
    folder_id,         \* GDRIVE_FOLDER_ID: "unset" or "ok"
    date_filter_str,   \* the request's date parameter
    target_date,       \* <<>> (None) or <<day>>
    store,             \* the Drive listing the query matches, as a sequence of pages
    page_token,        \* <<>> (None) or <<k>>: continuation token for page k
    requested,         \* the pageToken of every files().list call made, in order
    listErr,           \* "none", "HttpError" or "Other": what a listing call raised
    all_files,         \* all_files of get_all_files_for_period / files_to_process
    idx,               \* position of the download loop in files_to_process
    downloads,         \* per file tried: what download and read_excel gave
    all_dfs,           \* the data frames read so far
    last_updated_str,  \* modifiedTime of the last listed file
    last_updated,      \* the formatted last-updated marker
    df,                \* the combined data frame
    route_idx,         \* position of the loop over ROUTES
    reports,           \* per route processed: journeys kept, travel and volume report
    ret,               \* what process_data returned
    page,              \* what the dashboard endpoint answered
    rec,               \* a detection record under normalization
    applied            \* how many times rec was normalized

vars == <<pc, credentials, folder_id, date_filter_str, target_date, store,
          page_token, requested, listErr, all_files, idx, downloads, all_dfs,
          last_updated_str, last_updated, df, route_idx, reports, ret, page,
          rec, applied>>

requestVars == <<pc, credentials, folder_id, date_filter_str, target_date, store,
                 page_token, requested, listErr, all_files, idx, downloads, all_dfs,
                 last_updated_str, last_updated, df, route_idx, reports, ret, page>>

(***************************************************************************)
(* Configuration (api/app.py lines 21-29)                                  *)
(***************************************************************************)
SEITHUNGANALLUR == <<"S", "E", "I", "T", "H", "U", "N", "G", "A", "N", "A", "L", "L", "U", "R">>
ARUMUGANERI == <<"A", "R", "U", "M", "U", "G", "A", "N", "E", "R", "I">>
KURUKKUSALAI == <<"K", "U", "R", "U", "K", "K", "U", "S", "A", "L", "A", "I">>

ROUTES == << <<SEITHUNGANALLUR, ARUMUGANERI, 50>>,
             <<KURUKKUSALAI, ARUMUGANERI, 70>> >>

MAX_TRAVEL_TIME_MINS == 4 * 60

REQUIRED_COLUMNS == <<"Device Name", "License Plate", "Passing Time">>

\* the token str.replace removes from a checkpoint name
C_POST == <<" ", "C", ".", "P", "O", "S", "T">>

SecondsPerMinute == 60
SecondsPerDay == 86400
\* "15min": the width of an aggregation bucket, in seconds
FifteenMin == 900

(***************************************************************************)
(* Text helpers: str.upper, str.replace(old, "", regex=False), str.strip   *)
(***************************************************************************)
LowerChars == <<"a", "b", "c", "d", "e", "f", "g", "h", "i", "j", "k", "l", "m",
                "n", "o", "p", "q", "r", "s", "t", "u", "v", "w", "x", "y", "z">>
UpperChars == <<"A", "B", "C", "D", "E", "F", "G", "H", "I", "J", "K", "L", "M",
                "N", "O", "P", "Q", "R", "S", "T", "U", "V", "W", "X", "Y", "Z">>
Whitespace == {" "}

UpperChar(c) ==
    IF \E k \in 1..Len(LowerChars) : LowerChars[k] = c
    THEN UpperChars[CHOOSE k \in 1..Len(LowerChars) : LowerChars[k] = c]
    ELSE c

Upper(s) == [k \in 1..Len(s) |-> UpperChar(s[k])]

StartsWith(s, t) == Len(s) >= Len(t) /\ SubSeq(s, 1, Len(t)) = t

\* Python's str.replace(old, ""): one left-to-right pass over the text that
\* drops every non-overlapping occurrence of old; the result is not rescanned.
RECURSIVE Remove(_, _)
Remove(s, old) ==
    IF s = <<>> THEN <<>>
    ELSE IF StartsWith(s, old) THEN Remove(SubSeq(s, Len(old) + 1, Len(s)), old)
    ELSE <<Head(s)>> \o Remove(Tail(s), old)

RECURSIVE LStrip(_)
LStrip(s) == IF s # <<>> /\ Head(s) \in Whitespace THEN LStrip(Tail(s)) ELSE s

RECURSIVE RStrip(_)
RStrip(s) ==
    IF s # <<>> /\ s[Len(s)] \in Whitespace THEN RStrip(SubSeq(s, 1, Len(s) - 1)) ELSE s

Strip(s) == RStrip(LStrip(s))

(***************************************************************************)
(* Cells and the normalization of process_data (lines 149-151)             *)
(***************************************************************************)
Str(s) == <<"str", s>>
Num(s) == <<"num", s>>
NaN == <<"nan", <<>>>>
Ts(secs) == <<"ts", secs>>
NaT == <<"nat", 0>>
IsStr(cell) == cell[1] = "str"
Secs(t) == t[2]

NormDeviceText(s) == Strip(Remove(Upper(s), C_POST))
NormPlateText(s) == Strip(Upper(s))

\* Series.str.<method> applies to text cells and gives NaN for every other cell
NormalizeDevice(cell) == IF IsStr(cell) THEN Str(NormDeviceText(cell[2])) ELSE NaN
NormalizePlate(cell) == IF IsStr(cell) THEN Str(NormPlateText(cell[2])) ELSE NaN

Row(d, p, t) == [device |-> d, plate |-> p, time |-> t]

\* pd.to_datetime(errors='coerce'): a timestamp stays, anything else becomes NaT
ToDatetime(cell) == IF cell[1] = "ts" THEN cell ELSE NaT

NormalizeRow(r) ==
    Row(NormalizeDevice(r.device), NormalizePlate(r.plate), ToDatetime(r.time))

(***************************************************************************)
(* Bounds of the model and the inputs a request can meet                   *)
(***************************************************************************)
MaxFiles == 2       \* files the Drive query matches
MaxPages == 2       \* pages the listing is served in

\* text of the date parameter that pd.to_datetime parses, and the day it gives
ParsedDates == [d \in {"1970-01-01"} |-> 0]
DateStrings == {"", "1970-01-01", "not-a-date"}

\* a Drive modifiedTime: whole seconds and milliseconds (RFC 3339, UTC)
MTimes == {[s |-> 1, ms |-> 0], [s |-> 1, ms |-> 500], [s |-> 2, ms |-> 0]}
MTimeLE(a, b) == a.s < b.s \/ (a.s = b.s /\ a.ms <= b.ms)

File(k, m) == [id |-> k, name |-> <<"anpr_data_", k, ".xlsx">>, modifiedTime |-> m]

\* orderBy="modifiedTime": the listing is ascending in modifiedTime
Listings ==
    UNION {{[k \in 1..n |-> File(k, m[k])] :
              m \in {f \in [1..n -> MTimes] :
                       \A k \in 1..n : k < n => MTimeLE(f[k], f[k + 1])}} :
           n \in 0..MaxFiles}

\* a listing served in p pages: page k is the files cut[k-1]+1 .. cut[k]
Cuts(n, p) ==
    {c \in [0..p -> 0..n] :
        /\ c[0] = 0
        /\ c[p] = n
        /\ \A k \in 1..p : c[k - 1] <= c[k]}

Paged(files, c, p) == [k \in 1..p |-> SubSeq(files, c[k - 1] + 1, c[k])]

Stores ==
    UNION {UNION {{Paged(files, c, p) : c \in Cuts(Len(files), p)} :
                  p \in 1..MaxPages} :
           files \in Listings}

RECURSIVE Flatten(_)
Flatten(pages) == IF pages = <<>> THEN <<>> ELSE Head(pages) \o Flatten(Tail(pages))

\* cells of the sheets a request downloads
tn69ab1 == <<"t", "n", "6", "9", "a", "b", "1", " ">>
TN69AB1 == <<"T", "N", "6", "9", "A", "B", "1">>
\* a detection, the same with the plate in lower case and a trailing blank, one
\* with a numeric plate cell, one of the next day, one with an unreadable time
SheetRows ==
    {Row(Str(SEITHUNGANALLUR), Str(TN69AB1), Ts(600)),
     Row(Str(SEITHUNGANALLUR), Str(tn69ab1), Ts(600)),
     Row(Str(SEITHUNGANALLUR), Num(<<"7">>), Ts(600)),
     Row(Str(SEITHUNGANALLUR), Str(TN69AB1), Ts(87000)),
     Row(Str(SEITHUNGANALLUR), Str(TN69AB1), Str(<<"n", "/", "a">>))}

\* column labels read_excel can give; a label in IntLabels is held as an int
IntLabels == {"2023"}
RequiredSet == {REQUIRED_COLUMNS[k] : k \in 1..Len(REQUIRED_COLUMNS)}
HeaderRows ==
    {<<"Device Name", "License Plate", "Passing Time">>,
     <<"Device Name", "License Plate">>,
     <<"Device Name", "Passing Time">>,
     <<"License Plate", "Passing Time">>,
     <<"Device Name">>,
     <<"License Plate">>,
     <<"Passing Time">>,
     <<>>,
     <<"2023", "License Plate", "Passing Time">>}

HasRequired(columns) == \A c \in RequiredSet : \E k \in 1..Len(columns) : columns[k] = c

Sheet(columns, rows) == [columns |-> columns, rows |-> rows]

Sheets ==
    {Sheet(h, <<>>) : h \in {x \in HeaderRows : ~HasRequired(x)}}
    \cup {Sheet(REQUIRED_COLUMNS, <<>>)}
    \cup {Sheet(REQUIRED_COLUMNS, <<r>>) : r \in SheetRows}

(***************************************************************************)
(* What process_data returns                                               *)
(***************************************************************************)
NotAvailable == <<"Not available">>

Msg(kind, file, missing, found, detail) ==
    [kind |-> kind, file |-> file, missing |-> missing, found |-> found, detail |-> detail]

\* target_date.strftime('%Y-%m-%d')
DateText(d) == CHOOSE t \in DOMAIN ParsedDates : ParsedDates[t] = d[1]

InvalidDateMsg(s) == Msg("Invalid date format", <<>>, <<>>, <<>>, <<s>>)
NoFilesMsg(d) ==
    Msg("No data files found", <<>>, <<>>, <<>>,
        IF d # <<>> THEN <<"for", DateText(d)>> ELSE <<"in the Drive folder">>)
FileErrorMsg(name, missing, found) == Msg("File Error", name, missing, found, <<>>)
NoneReadMsg == Msg("Files were found, but none could be read.", <<>>, <<>>, <<>>, <<>>)
ErrorMsg(e) == Msg("An error occurred", <<>>, <<>>, <<>>, <<e>>)
NoValidDataMsg(d) ==
    Msg("No valid data found", <<>>, <<>>, <<>>,
        IF d # <<>> THEN <<"on", DateText(d)>> ELSE <<"for the selected period">>)
NoRoutesMsg(d) ==
    Msg("No data found for any routes", <<>>, <<>>, <<>>,
        IF d # <<>> THEN <<"on", DateText(d)>> ELSE <<>>)

Returned(graphs, lu) == [graphs |-> graphs, last_updated |-> lu]
NoReturn == Returned(<<>>, <<>>)
NoPage == [status |-> 0, graphs |-> <<>>, last_updated |-> <<>>]
NoRec == Row(NaN, NaN, NaT)

\* strftime("%Y-%m-%d %H:%M:%S UTC"): the whole seconds, the fraction dropped
FormatUTC(m) == <<m.s, "UTC">>

(***************************************************************************)
(* The request: dashboard (lines 224-229) calling process_data (104-220)   *)
(***************************************************************************)
Init ==
    /\ pc = "start"
    /\ credentials \in {"unset", "malformed", "ok"}
    /\ folder_id \in {"unset", "ok"}
    /\ date_filter_str \in DateStrings
    /\ store \in Stores
    /\ target_date = <<>>
    /\ page_token = <<>>
    /\ requested = <<>>
    /\ listErr = "none"
    /\ all_files = <<>>
    /\ idx = 1
    /\ downloads = <<>>
    /\ all_dfs = <<>>
    /\ last_updated_str = <<>>
    /\ last_updated = NotAvailable
    /\ df = <<>>
    /\ route_idx = 1
    /\ reports = <<>>
    /\ ret = NoReturn
    /\ page = NoPage
    /\ rec = NoRec
    /\ applied = 0

\* a return statement of process_data
Return(graphs, lu) ==
    /\ ret' = Returned(graphs, lu)
    /\ pc' = "returned"

\* the handler of line 145: except Exception as e
Caught(e) == Return(<<ErrorMsg(e)>>, NotAvailable)

\* lines 106-111
ParseDate ==
    /\ pc = "start"
    /\ IF date_filter_str = ""
       THEN /\ pc' = "service"
            /\ UNCHANGED <<target_date, ret>>
       ELSE IF date_filter_str \in DOMAIN ParsedDates
       THEN /\ target_date' = <<ParsedDates[date_filter_str]>>
            /\ pc' = "service"
            /\ UNCHANGED ret
       ELSE /\ Return(<<InvalidDateMsg(date_filter_str)>>, NotAvailable)
            /\ UNCHANGED target_date
    /\ UNCHANGED <<credentials, folder_id, date_filter_str, store, page_token,
                   requested, listErr, all_files, idx, downloads, all_dfs,
                   last_updated_str, last_updated, df, route_idx, reports, page,
                   rec, applied>>

\* line 114 with get_gdrive_service (33-41), then the entry of
\* get_all_files_for_period (49-69)
GetService ==
    /\ pc = "service"
    /\ IF credentials = "unset"
       THEN Caught("ValueError: GOOGLE_CREDENTIALS_JSON is not set")
       ELSE IF credentials = "malformed"
       THEN Caught("JSONDecodeError")
       ELSE IF folder_id = "unset"
       THEN Caught("ValueError: GDRIVE_FOLDER_ID is not set")
       ELSE /\ pc' = "listing"
            /\ UNCHANGED ret
    /\ all_files' = <<>>
    /\ page_token' = <<>>
    /\ UNCHANGED <<credentials, folder_id, date_filter_str, target_date, store,
                   requested, listErr, idx, downloads, all_dfs, last_updated_str,
                   last_updated, df, route_idx, reports, page, rec, applied>>

\* what files().list(pageToken=t).execute() answers when it does not raise
PageOf(t) == IF t = <<>> THEN 1 ELSE t[1]
ResponseFiles(t) == store[PageOf(t)]
NextPageToken(t) == IF PageOf(t) < Len(store) THEN <<PageOf(t) + 1>> ELSE <<>>

\* line 78: all_files.extend(response.get('files', []))
ExtendReplacing(files, response_files) == response_files
Extend(files, response_files) == files \o response_files

\* lines 83-85: what the lookup returns once an HttpError was caught
OnHttpErrorPartial(files) == files
OnHttpError(files) == <<>>

\* line 124: files_to_process[-1]['modifiedTime']
FirstModifiedTime(files_to_process) == files_to_process[1].modifiedTime
LastModifiedTime(files_to_process) == files_to_process[Len(files_to_process)].modifiedTime

CheckFilesOneMessage(files_to_process) ==
    IF files_to_process = <<>>
    THEN /\ Return(<<NoneReadMsg>>, NotAvailable)
         /\ UNCHANGED last_updated_str
    ELSE /\ last_updated_str' = LastModifiedTime(files_to_process)
         /\ pc' = "download"
         /\ UNCHANGED ret

\* lines 118-124, on the list the lookup returned
CheckFiles(files_to_process) ==
    IF files_to_process = <<>>
    THEN /\ Return(<<NoFilesMsg(target_date)>>, NotAvailable)
         /\ UNCHANGED last_updated_str
    ELSE /\ last_updated_str' = LastModifiedTime(files_to_process)
         /\ pc' = "download"
         /\ UNCHANGED ret

\* one iteration of the loop of lines 70-81, the return of line 82 and the
\* handler of lines 83-85
ListPage ==
    /\ pc = "listing"
    /\ requested' = Append(requested, page_token)
    /\ \E outcome \in {"ok", "HttpError", "Other"} :
         \/ /\ outcome = "ok"
            /\ LET files == Extend(all_files, ResponseFiles(page_token))
                   next == NextPageToken(page_token)
               IN  /\ all_files' = files
                   /\ page_token' = next
                   /\ IF next = <<>>
                      THEN CheckFiles(files)
                      ELSE UNCHANGED <<pc, ret, last_updated_str>>
            /\ UNCHANGED listErr
         \/ /\ outcome = "HttpError"
            /\ listErr' = "HttpError"
            /\ all_files' = OnHttpError(all_files)
            /\ CheckFiles(all_files')
            /\ UNCHANGED page_token
         \/ /\ outcome = "Other"
            /\ listErr' = "Other"
            /\ Caught("transport error while listing")
            /\ UNCHANGED <<all_files, page_token, last_updated_str>>
    /\ UNCHANGED <<credentials, folder_id, date_filter_str, target_date, store,
                   idx, downloads, all_dfs, last_updated, df, route_idx, reports,
                   page, rec, applied>>

\* line 131: the required columns the sheet lacks, in REQUIRED_COLUMNS order
RECURSIVE MissingColumns(_, _)
MissingColumns(required, columns) ==
    IF required = <<>> THEN <<>>
    ELSE (IF \E k \in 1..Len(columns) : columns[k] = Head(required)
          THEN <<>> ELSE <<Head(required)>>)
         \o MissingColumns(Tail(required), columns)

\* what one pass of the loop body (lines 127-136) met
Download(file, outcome, sheet) == [file |-> file, outcome |-> outcome, sheet |-> sheet]
NoSheet == Sheet(<<>>, <<>>)

\* one iteration of the loop of lines 126-136
DownloadFile ==
    /\ pc = "download"
    /\ idx <= Len(all_files)
    /\ LET file_info == all_files[idx] IN
       \/ \* download_file_from_gdrive caught an HttpError and returned None
          /\ downloads' = Append(downloads, Download(file_info, "None", NoSheet))
          /\ idx' = idx + 1
          /\ UNCHANGED <<pc, ret, all_dfs>>
       \/ \* the download raised something that is not an HttpError
          /\ downloads' = Append(downloads, Download(file_info, "Raised", NoSheet))
          /\ Caught("transport error while downloading")
          /\ UNCHANGED <<idx, all_dfs>>
       \/ \* pd.read_excel could not read the content
          /\ downloads' = Append(downloads, Download(file_info, "Unreadable", NoSheet))
          /\ Caught("read_excel failed")
          /\ UNCHANGED <<idx, all_dfs>>
       \/ \E df_temp \in Sheets :
            LET missing_columns == MissingColumns(REQUIRED_COLUMNS, df_temp.columns)
                found_columns == IF df_temp.columns # <<>> THEN df_temp.columns
                                 ELSE <<"None">>
            IN  /\ downloads' = Append(downloads, Download(file_info, "Read", df_temp))
                /\ IF missing_columns # <<>>
                   THEN /\ IF \E k \in 1..Len(df_temp.columns) :
                                 df_temp.columns[k] \in IntLabels
                           THEN Caught("TypeError: expected str instance, int found")
                           ELSE Return(<<FileErrorMsg(file_info.name, missing_columns,
                                                      found_columns)>>, NotAvailable)
                        /\ UNCHANGED <<idx, all_dfs>>
                   ELSE /\ all_dfs' = Append(all_dfs, df_temp)
                        /\ idx' = idx + 1
                        /\ UNCHANGED <<pc, ret>>
    /\ UNCHANGED <<credentials, folder_id, date_filter_str, target_date, store,
                   page_token, requested, listErr, all_files, last_updated_str,
                   last_updated, df, route_idx, reports, page, rec, applied>>

\* pd.concat(all_dfs, ignore_index=True)
RECURSIVE ConcatRows(_)
ConcatRows(dfs) == IF dfs = <<>> THEN <<>> ELSE Head(dfs).rows \o ConcatRows(Tail(dfs))

\* DataFrame.drop_duplicates(): the first of each group of equal rows stays
RECURSIVE DropDuplicatesFrom(_, _)
DropDuplicatesFrom(rows, seen) ==
    IF rows = <<>> THEN <<>>
    ELSE IF Head(rows) \in seen THEN DropDuplicatesFrom(Tail(rows), seen)
    ELSE <<Head(rows)>> \o DropDuplicatesFrom(Tail(rows), seen \cup {Head(rows)})

DropDuplicates(rows) == DropDuplicatesFrom(rows, {})

\* lines 138-143, after the loop
Concat ==
    /\ pc = "download"
    /\ idx > Len(all_files)
    /\ IF all_dfs = <<>>
       THEN /\ Return(<<NoneReadMsg>>, NotAvailable)
            /\ UNCHANGED <<df, last_updated>>
       ELSE /\ df' = DropDuplicates(ConcatRows(all_dfs))
            /\ last_updated' = FormatUTC(last_updated_str)
            /\ pc' = "clean"
            /\ UNCHANGED ret
    /\ UNCHANGED <<credentials, folder_id, date_filter_str, target_date, store,
                   page_token, requested, listErr, all_files, idx, downloads,
                   all_dfs, last_updated_str, route_idx, reports, page, rec, applied>>

\* a column read from a sheet is of object dtype when the sheet has no row or
\* the column holds a text cell; the concatenated column is of object dtype
\* when it is so in one of the frames
ObjectDtype(sheet, col) ==
    sheet.rows = <<>> \/ \E k \in 1..Len(sheet.rows) : IsStr(sheet.rows[k][col])
HasStrAccessor(dfs, col) == \E k \in 1..Len(dfs) : ObjectDtype(dfs[k], col)

\* df.dropna(subset=REQUIRED_COLUMNS)
NotNull(r) == r.device # NaN /\ r.plate # NaN /\ r.time # NaT

\* Timestamp.date(), as a day number
DayOf(t) == Secs(t) \div SecondsPerDay

\* lines 149-156 on the rows of the combined frame
CleanRows(rows, date) ==
    LET normalized == [k \in 1..Len(rows) |-> NormalizeRow(rows[k])]
        valid == SelectSeq(normalized, NotNull)
        OnDate(r) == DayOf(r.time) = date[1]
    IN  IF date # <<>> THEN SelectSeq(valid, OnDate) ELSE valid

\* lines 149-160.  Outside the try block: an exception here leaves process_data
Clean ==
    /\ pc = "clean"
    /\ IF ~HasStrAccessor(all_dfs, "device") \/ ~HasStrAccessor(all_dfs, "plate")
       THEN /\ pc' = "raised"
            /\ UNCHANGED <<df, ret, route_idx, reports>>
       ELSE /\ df' = CleanRows(df, target_date)
            /\ IF df' = <<>>
               THEN /\ Return(<<NoValidDataMsg(target_date)>>, last_updated)
                    /\ UNCHANGED <<route_idx, reports>>
               ELSE /\ pc' = "routes"
                    /\ route_idx' = 1
                    /\ reports' = <<>>
                    /\ UNCHANGED ret
    /\ UNCHANGED <<credentials, folder_id, date_filter_str, target_date, store,
                   page_token, requested, listErr, all_files, idx, downloads,
                   all_dfs, last_updated_str, last_updated, page, rec, applied>>

(***************************************************************************)
(* Journey reconciler and aggregator (lines 164-212).  Times are whole     *)
(* seconds, so "Travel Time (mins)" is kept as seconds and the bound of    *)
(* line 171 is scaled by 60 instead of dividing.  The plotly figure built  *)
(* from the two reports is left to the rendering library.                  *)
(***************************************************************************)
\* df[df["Device Name"] == cp]: the index labels of the rows selected
RECURSIVE RowsAt(_, _, _)
RowsAt(frame, cp, k) ==
    IF k > Len(frame) THEN <<>>
    ELSE (IF frame[k].device = Str(cp) THEN <<k>> ELSE <<>>) \o RowsAt(frame, cp, k + 1)

Journey(frame, i, j) ==
    [start |-> i, end |-> j, plate |-> frame[i].plate,
     time_start |-> frame[i].time, time_end |-> frame[j].time,
     travel_seconds |-> Secs(frame[j].time) - Secs(frame[i].time)]

\* the rows of the inner join that one row of df_start gives
RECURSIVE MergeRow(_, _, _)
MergeRow(frame, i, df_end) ==
    IF df_end = <<>> THEN <<>>
    ELSE (IF frame[i].plate = frame[Head(df_end)].plate
          THEN <<Journey(frame, i, Head(df_end))>> ELSE <<>>)
         \o MergeRow(frame, i, Tail(df_end))

\* line 169: pd.merge(df_start, df_end, on="License Plate")
RECURSIVE Merge(_, _, _)
Merge(frame, df_start, df_end) ==
    IF df_start = <<>> THEN <<>>
    ELSE MergeRow(frame, Head(df_start), df_end) \o Merge(frame, Tail(df_start), df_end)

InBoundOrEqual(m) ==
    /\ m.travel_seconds >= 0
    /\ m.travel_seconds <= MAX_TRAVEL_TIME_MINS * SecondsPerMinute

\* line 171
InBound(m) ==
    /\ m.travel_seconds > 0
    /\ m.travel_seconds <= MAX_TRAVEL_TIME_MINS * SecondsPerMinute

\* lines 169-171
Journeys(frame, df_start, df_end) == SelectSeq(Merge(frame, df_start, df_end), InBound)

\* Series.dt.floor("15min")
Floor15(t) == Secs(t) - (Secs(t) % FifteenMin)

NoGroups == [b \in {} |-> 0]

\* lines 175-176: per interval, the sum (for the mean) and the count of journeys
RECURSIVE TravelReport(_, _)
TravelReport(merged, acc) ==
    IF merged = <<>> THEN acc
    ELSE LET m == Head(merged)
             b == Floor15(m.time_start)
             old == IF b \in DOMAIN acc THEN acc[b] ELSE [total |-> 0, vehicle_count |-> 0]
             new == [total |-> old.total + m.travel_seconds,
                     vehicle_count |-> old.vehicle_count + 1]
         IN  TravelReport(Tail(merged),
                          [x \in DOMAIN acc \cup {b} |-> IF x = b THEN new ELSE acc[x]])

\* lines 200-202, grouping: per interval, the plates seen at the start checkpoint
RECURSIVE PlatesByInterval(_, _, _)
PlatesByInterval(frame, df_start, acc) ==
    IF df_start = <<>> THEN acc
    ELSE LET r == frame[Head(df_start)]
             b == Floor15(r.time)
             old == IF b \in DOMAIN acc THEN acc[b] ELSE {}
         IN  PlatesByInterval(frame, Tail(df_start),
                              [x \in DOMAIN acc \cup {b} |->
                                 IF x = b THEN old \cup {r.plate} ELSE acc[x]])

\* the same grouping with 'count' in place of 'nunique'
RECURSIVE CountByInterval(_, _, _)
CountByInterval(frame, df_start, acc) ==
    IF df_start = <<>> THEN acc
    ELSE LET b == Floor15(frame[Head(df_start)].time)
             old == IF b \in DOMAIN acc THEN acc[b] ELSE 0
         IN  CountByInterval(frame, Tail(df_start),
                             [x \in DOMAIN acc \cup {b} |->
                                IF x = b THEN old + 1 ELSE acc[x]])

VolumeReportCount(frame, df_start) == CountByInterval(frame, df_start, NoGroups)

\* lines 200-202: vehicle_count=('License Plate', 'nunique')
VolumeReport(frame, df_start) ==
    LET groups == PlatesByInterval(frame, df_start, NoGroups)
    IN  [b \in DOMAIN groups |-> Cardinality(groups[b])]

\* what lines 165-212 compute for one route
RouteReport(frame, r) ==
    LET df_start == RowsAt(frame, ROUTES[r][1], 1)
        df_end == RowsAt(frame, ROUTES[r][2], 1)
        merged == Journeys(frame, df_start, df_end)
    IN  [route |-> r,
         journeys |-> merged,
         travel_chart |-> merged # <<>>,
         travel_report |-> TravelReport(merged, NoGroups),
         volume_chart |-> df_start # <<>>,
         volume_report |-> VolumeReport(frame, df_start)]

\* one iteration of the loop of lines 164-212
ProcessRoute ==
    /\ pc = "routes"
    /\ route_idx <= Len(ROUTES)
    /\ reports' = Append(reports, RouteReport(df, route_idx))
    /\ route_idx' = route_idx + 1
    /\ UNCHANGED <<pc, credentials, folder_id, date_filter_str, target_date, store,
                   page_token, requested, listErr, all_files, idx, downloads,
                   all_dfs, last_updated_str, last_updated, df, ret, page, rec,
                   applied>>

\* lines 214-220
ReturnGraphs ==
    /\ pc = "routes"
    /\ route_idx > Len(ROUTES)
    /\ IF reports = <<>>
       THEN Return(<<NoRoutesMsg(target_date)>>, last_updated)
       ELSE Return(reports, last_updated)
    /\ UNCHANGED <<credentials, folder_id, date_filter_str, target_date, store,
                   page_token, requested, listErr, all_files, idx, downloads,
                   all_dfs, last_updated_str, last_updated, df, route_idx, reports,
                   page, rec, applied>>

\* lines 228-229: dashboard renders what process_data returned
RenderPage ==
    /\ pc = "returned"
    /\ page' = [status |-> 200, graphs |-> ret.graphs, last_updated |-> ret.last_updated]
    /\ pc' = "rendered"
    /\ UNCHANGED <<credentials, folder_id, date_filter_str, target_date, store,
                   page_token, requested, listErr, all_files, idx, downloads,
                   all_dfs, last_updated_str, last_updated, df, route_idx, reports,
                   ret, rec, applied>>

\* line 228 when process_data raised: the exception leaves dashboard as well
\* and the framework answers with an internal server error
ServerError ==
    /\ pc = "raised"
    /\ page' = [status |-> 500, graphs |-> <<>>, last_updated |-> <<>>]
    /\ pc' = "failed"
    /\ UNCHANGED <<credentials, folder_id, date_filter_str, target_date, store,
                   page_token, requested, listErr, all_files, idx, downloads,
                   all_dfs, last_updated_str, last_updated, df, route_idx, reports,
                   ret, rec, applied>>

Next ==
    \/ ParseDate
    \/ GetService
    \/ ListPage
    \/ DownloadFile
    \/ Concat
    \/ Clean
    \/ ProcessRoute
    \/ ReturnGraphs
    \/ RenderPage
    \/ ServerError

Spec == Init /\ [][Next]_vars

\* The catalog lookup of a request on its own: process_data up to the return
\* of get_all_files_for_period.  The request is served synchronously, so the
\* loop takes its next step whenever it has one.
NextLookup ==
    \/ ParseDate
    \/ GetService
    \/ ListPage

LookupSpec == Init /\ [][NextLookup]_vars /\ WF_vars(NextLookup)

(***************************************************************************)
(* Properties of the request                                               *)
(***************************************************************************)
Answered == pc \in {"returned", "rendered"}
LookupReturned == pc \notin {"start", "service", "listing"} /\ listErr # "Other"
                  /\ requested # <<>>
Listing == Flatten(store)

\* C9: when no listing call fails, the lookup requests the first page and then
\* one page per continuation token, each once and in order, stops at the first
\* response without a token and returns the files of all pages in page order;
\* the paging loop always comes to an end.
C9_Pagination ==
    /\ [](LookupReturned /\ listErr = "none" =>
            /\ all_files = Listing
            /\ requested = [k \in 1..Len(store) |-> IF k = 1 THEN <<>> ELSE <<k>>])
    /\ [](pc = "listing" /\ listErr = "none" =>
            /\ Len(requested) < Len(store)
            /\ all_files = Flatten(SubSeq(store, 1, Len(requested))))
    /\ [][pc = "listing" => Len(requested') = Len(requested) + 1]_vars
    /\ (pc = "listing" ~> pc # "listing")

C9_Witness ==
    /\ pc = "download"
    /\ listErr = "none"
    /\ Len(requested) = 2
    /\ \A k \in 1..Len(store) : store[k] # <<>>

\* C7: a last-updated value other than 'Not available' is the greatest
\* modifiedTime of the listing, over all its pages, formatted to whole seconds UTC.
C7_LastUpdated ==
    Answered /\ ret.last_updated # NotAvailable =>
        /\ Listing # <<>>
        /\ \E k \in 1..Len(Listing) :
             /\ \A j \in 1..Len(Listing) :
                  MTimeLE(Listing[j].modifiedTime, Listing[k].modifiedTime)
             /\ ret.last_updated = FormatUTC(Listing[k].modifiedTime)

C7_Witness ==
    /\ Answered
    /\ ret.last_updated # NotAvailable
    /\ Len(store) = 2
    /\ Len(Listing) = 2
    /\ Listing[1].modifiedTime.s < Listing[2].modifiedTime.s

AllDownloadsNone ==
    /\ Len(downloads) = Len(all_files)
    /\ \A k \in 1..Len(downloads) : downloads[k].outcome = "None"

\* C6: an empty lookup result answers 'No data files found', a listing of which
\* every download returned nothing answers 'Files were found, but none could be
\* read.'; the two differ, and both carry no chart and 'Not available'.
C6_EmptyVersusUnreadable ==
    Answered /\ LookupReturned =>
        /\ all_files = <<>> =>
             ret = Returned(<<NoFilesMsg(target_date)>>, NotAvailable)
        /\ all_files # <<>> /\ AllDownloadsNone =>
             /\ ret = Returned(<<NoneReadMsg>>, NotAvailable)
             /\ ret.graphs[1].kind # NoFilesMsg(target_date).kind

C6_Witness ==
    /\ Answered
    /\ LookupReturned
    /\ Len(all_files) = 2
    /\ AllDownloadsNone
    /\ ret.graphs = <<NoneReadMsg>>

NotIn(columns) == LET Absent(c) == \A k \in 1..Len(columns) : columns[k] # c
                  IN  SelectSeq(REQUIRED_COLUMNS, Absent)

\* C3: when a downloaded file lacks a required column the request answers one
\* message naming the file, exactly the missing required columns and the
\* columns found, with no chart and 'Not available'.
C3_MissingColumnMessage ==
    Answered =>
        \A k \in 1..Len(downloads) :
            downloads[k].outcome = "Read" /\ ~HasRequired(downloads[k].sheet.columns) =>
                ret = Returned(<<FileErrorMsg(downloads[k].file.name,
                                              NotIn(downloads[k].sheet.columns),
                                              IF downloads[k].sheet.columns = <<>>
                                              THEN <<"None">>
                                              ELSE downloads[k].sheet.columns)>>,
                               NotAvailable)

\* C5: no failure leaves process_data as an uncaught exception; every request
\* is answered by a returned pair and a rendered page.
C5_NoUncaughtException == pc \notin {"raised", "failed"}

\* C2: the record set handed to the reconciler holds no two equal rows.
C2_NoDuplicateRows ==
    pc = "routes" => \A i, j \in 1..Len(df) : i # j => df[i] # df[j]

(***************************************************************************)
(* The reconciler and the aggregator over normalized record sets: the      *)
(* request from the point where one file was read and combined, with its   *)
(* rows drawn from the checkpoints of ROUTES, two plates and times on both *)
(* sides of the 15-minute and 240-minute marks.                            *)
(***************************************************************************)
MaxRows == 3        \* rows of the combined frame

TN69CD2 == <<"T", "N", "6", "9", "C", "D", "2">>
RoutePlates == {TN69AB1, TN69CD2}
RouteTimes == {0, 600, 14400, 15000}
\* <<checkpoint, plate, seconds>>: departures early and late, arrivals at once,
\* 230, 240 and 250 minutes after them
RouteRows ==
    ({SEITHUNGANALLUR} \X RoutePlates \X {0, 600, 15000})
    \cup ({ARUMUGANERI} \X RoutePlates \X {600, 14400, 15000})
    \cup ({KURUKKUSALAI} \X {TN69AB1} \X {0, 600})

RECURSIVE Spaces(_)
Spaces(n) == IF n = 0 THEN <<>> ELSE <<" ">> \o Spaces(n - 1)

\* sheets whose k-th row carries k trailing blanks after the plate: the rows
\* are pairwise different as read, whatever they are once normalized
RouteSheet(f) ==
    Sheet(REQUIRED_COLUMNS,
          [k \in 1..Len(f) |-> Row(Str(f[k][1]), Str(f[k][2] \o Spaces(k)), Ts(f[k][3]))])

OneFile == File(1, [s |-> 1, ms |-> 0])

InitRoutes ==
    /\ pc = "clean"
    /\ credentials = "ok"
    /\ folder_id = "ok"
    /\ date_filter_str = ""
    /\ target_date = <<>>
    /\ store = <<<<OneFile>>>>
    /\ page_token = <<>>
    /\ requested = <<<<>>>>
    /\ listErr = "none"
    /\ all_files = <<OneFile>>
    /\ idx = 2
    /\ \E n \in 1..MaxRows :
         \E f \in [1..n -> RouteRows] :
            /\ downloads = <<Download(OneFile, "Read", RouteSheet(f))>>
            /\ all_dfs = <<RouteSheet(f)>>
            /\ df = DropDuplicates(ConcatRows(<<RouteSheet(f)>>))
    /\ last_updated_str = LastModifiedTime(all_files)
    /\ last_updated = FormatUTC(last_updated_str)
    /\ route_idx = 1
    /\ reports = <<>>
    /\ ret = NoReturn
    /\ page = NoPage
    /\ rec = NoRec
    /\ applied = 0

NextRoutes ==
    \/ Clean
    \/ ProcessRoute
    \/ ReturnGraphs
    \/ RenderPage

RoutesSpec == InitRoutes /\ [][NextRoutes]_vars

Rows == 1..Len(df)
Minutes(n) == n * 60
StartRows(r) == {i \in Rows : df[i].device = Str(ROUTES[r][1])}
EndRows(r) == {j \in Rows : df[j].device = Str(ROUTES[r][2])}
Elapsed(i, j) == Secs(df[j].time) - Secs(df[i].time)

\* C1: on every route the journeys kept are exactly the pairs of a row at the
\* start checkpoint and a row at the end checkpoint with the same plate and an
\* elapsed time above 0 and of at most 240 minutes, each pair once; no journey
\* arrives at or before its departure.
C1_JourneysKept ==
    pc \in {"routes", "returned", "rendered"} =>
        \A r \in 1..Len(reports) :
            LET kept == reports[r].journeys
                pairs == {<<kept[n].start, kept[n].end>> : n \in 1..Len(kept)}
            IN  /\ pairs = {<<i, j>> \in StartRows(r) \X EndRows(r) :
                              /\ df[i].plate = df[j].plate
                              /\ Elapsed(i, j) > 0
                              /\ Elapsed(i, j) <= Minutes(240)}
                /\ Cardinality(pairs) = Len(kept)
                /\ \A n \in 1..Len(kept) :
                     /\ Secs(kept[n].time_end) > Secs(kept[n].time_start)
                     /\ kept[n].time_start = df[kept[n].start].time
                     /\ kept[n].time_end = df[kept[n].end].time

\* a plate seen twice at the start and once at the end, both pairs in bound
C1_Witness ==
    /\ pc = "routes"
    /\ Len(reports) >= 1
    /\ Len(df) = 3
    /\ Len(reports[1].journeys) = 2
    /\ Cardinality({df[i].time : i \in StartRows(1)}) = 2

Interval(t) == (Secs(t) \div 900) * 900
IntervalsOf(frame, cp) ==
    {Interval(frame[i].time) : i \in {k \in 1..Len(frame) : frame[k].device = Str(cp)}}
PlatesIn(frame, cp, b) ==
    {frame[i].plate : i \in {k \in 1..Len(frame) :
                               frame[k].device = Str(cp) /\ Interval(frame[k].time) = b}}
Volume(frame, cp) ==
    [b \in IntervalsOf(frame, cp) |-> Cardinality(PlatesIn(frame, cp, b))]
NotAtEnd(r) == LET Keep(row) == row.device # Str(ROUTES[r][2]) IN SelectSeq(df, Keep)
EndDetections(r) ==
    {Row(Str(ROUTES[r][2]), Str(p), Ts(t)) : p \in RoutePlates, t \in RouteTimes}

\* C10: on every route the volume of a 15-minute interval is the number of
\* distinct plates among the rows at the start checkpoint whose time floors to
\* it; it is the same with the end-checkpoint rows removed or one more added,
\* and it is charted whenever the start checkpoint has a row, journeys or not.
C10_VolumeCounts ==
    pc \in {"routes", "returned", "rendered"} =>
        \A r \in 1..Len(reports) :
            /\ reports[r].volume_report = Volume(df, ROUTES[r][1])
            /\ reports[r].volume_chart = (StartRows(r) # {})
            /\ RouteReport(NotAtEnd(r), r).volume_report = reports[r].volume_report
            /\ \A e \in EndDetections(r) :
                 RouteReport(Append(df, e), r).volume_report = reports[r].volume_report

\* two plates, one of them twice, in one interval at a start checkpoint, and no
\* completed journey on the route
C10_Witness ==
    /\ pc = "returned"
    /\ Len(df) = 3
    /\ reports[1].journeys = <<>>
    /\ reports[1].volume_chart
    /\ \E b \in DOMAIN reports[1].volume_report : reports[1].volume_report[b] = 2
    /\ Cardinality(StartRows(1)) = 3

(***************************************************************************)
(* Normalization of one detection record, applied again to its own result  *)
(***************************************************************************)
MaxFragments == 4       \* pieces a checkpoint text is put together from
MaxApplications == 2    \* times the record is normalized

Fragments == {<<"x">>, <<" ">>, <<" ", "c", ".">>, C_POST, <<"P", "O", "S", "T">>}

RECURSIVE Join(_)
Join(pieces) == IF pieces = <<>> THEN <<>> ELSE Head(pieces) \o Join(Tail(pieces))

RecordPlates == {Str(tn69ab1), Num(<<"7">>)}
RecordTimes == {Ts(600), Str(<<"n", "/", "a">>)}

InitNormalize ==
    /\ pc = "normalize"
    /\ \E n \in 0..MaxFragments :
         \E f \in [1..n -> Fragments] :
            \E p \in RecordPlates, t \in RecordTimes :
               rec = Row(Str(Join(f)), p, t)
    /\ applied = 0
    /\ credentials = "ok"
    /\ folder_id = "ok"
    /\ date_filter_str = ""
    /\ target_date = <<>>
    /\ store = <<<<>>>>
    /\ page_token = <<>>
    /\ requested = <<>>
    /\ listErr = "none"
    /\ all_files = <<>>
    /\ idx = 1
    /\ downloads = <<>>
    /\ all_dfs = <<>>
    /\ last_updated_str = <<>>
    /\ last_updated = NotAvailable
    /\ df = <<>>
    /\ route_idx = 1
    /\ reports = <<>>
    /\ ret = NoReturn
    /\ page = NoPage

\* lines 149-151 on one record
NormalizeRecord ==
    /\ pc = "normalize"
    /\ applied < MaxApplications
    /\ rec' = NormalizeRow(rec)
    /\ applied' = applied + 1
    /\ UNCHANGED requestVars

NormalizeSpec == InitNormalize /\ [][NormalizeRecord]_vars

\* C8: normalizing a normalized record gives the same record.
C8_NormalizeIdempotent == [][applied >= 1 => rec' = rec]_vars

====
